---- MODULE Spec2Model ----
(***************************************************************************)
(* GOFSM: goal-oriented finite state machine (src/src/gofsm.c, gofsm.h).   *)
(* The engine holds a registry of transition references, a current and a   *)
(* target node, a cached transition and three flags.  GOFSM_OnTick picks   *)
(* the next transition with a backward breadth-first search and attempts   *)
(* it.                                                                     *)
(***************************************************************************)
EXTENDS Integers, Sequences, FiniteSets, TLC

\* ------------------------------------------------------------------ bounds
\* the engine under test: nodes_capacity and transitions_capacity
NumNodes == 3
MaxTransitions == 3
\* the search on its own: node ids and registry entries, of either state
SearchNodes == 3
SearchEdges == 3
\* the search on its own, Available entries only, from the initial node 0
WideNodes == 4
WideEdges == 4

\* ------------------------------------------------- constants of the program
NULL == 0
GOFSM_Transition_Result_Failure == 0
GOFSM_Transition_Result_Success == 1
GOFSM_Transition_State_Blocked == 0
GOFSM_Transition_State_Available == 1
GOFSM_Error_No == 0
GOFSM_Error_OwerstackTransitions == 1
GOFSM_Error_NotRegisteredTransition == 2
\* width of the uint8_t cursors and counters
Uint8 == 256

States == {GOFSM_Transition_State_Blocked, GOFSM_Transition_State_Available}

VARIABLES
    \* configuration of GOFSM_t, fixed at construction
    nodes_capacity,
    transitions_capacity,
    \* fields of the owner's GOFSM_Transition_t objects, by reference
    source_node_index,
    destination_node_index,
    function,                \* TRUE: an action is attached, FALSE: NULL
    state,
    \* fields of GOFSM_t
    transitions,             \* transitions[0 .. transitions_count-1]
    transition_current,
    current_node_index,
    target_node_index,
    is_target_change,
    is_transition_failure,
    is_graph_reconfigured,
    \* what the last call did and returned (observation only)
    last,
    \* the transition whose action failed on a tick, while no goal change and
    \* no topology change has been made since (observation only)
    pending

objs == <<source_node_index, destination_node_index, function, state>>
engine == <<transitions, transition_current, current_node_index, target_node_index,
            is_target_change, is_transition_failure, is_graph_reconfigured>>
config == <<nodes_capacity, transitions_capacity>>
vars == <<config, objs, engine, last, pending>>

\* node ids in use: below nodes_capacity
Nodes == 0 .. (nodes_capacity - 1)
\* the owner's transition objects, references 1, 2, ...
Refs == DOMAIN source_node_index

transitions_count == Len(transitions)

\* What last carries from call to call (observation only): none, the latest
\* tick made with current # target found no path; goal, GOFSM_SetCurrent or
\* GOFSM_SetTarget was called and no tick has searched since.
Carried == [none |-> last.none, goal |-> last.goal]

\* --------------------------------------------------- GOFSM_SearchNextStep
\* A cell of alg_nodes_buffer that this search has not written yet.
Unwritten == 0 - 1

\* faulty variant of IsVisited: the loop of line 39 starts at k = 1
IsVisited_SkipFirst(buf, visited_length, prev_node) ==
    \E k \in 1 .. (visited_length - 1) : buf[k + 1] = prev_node

\* lines 38-44: is prev_node among visited[0 .. visited_length-1]
IsVisited(buf, visited_length, prev_node) ==
    \E k \in 0 .. (visited_length - 1) : buf[k + 1] = prev_node

Max(a, b) == IF a >= b THEN a ELSE b

\* lines 39-43: the highest k for which visited[k] is read, the loop being
\* left at the first match
LastVisitedRead(buf, visited_length, prev_node) ==
    LET hits == {k \in 0 .. (visited_length - 1) : buf[k + 1] = prev_node} IN
    IF hits = {} THEN visited_length - 1
    ELSE CHOOSE k \in hits : \A h \in hits : k <= h

\* faulty variant of IsFollowed: the state test of line 30 left out
IsFollowed_AnyState(t) == TRUE

\* line 30: only Available transitions are followed
IsFollowed(t) == state[t] = GOFSM_Transition_State_Available

\* faulty variant of Plan: planned_length++ (line 47) left out
Plan_NoGrow(st, prev_node) ==
    LET at == st.planned_base + st.planned_length IN
    [st EXCEPT !.buf = IF at < nodes_capacity THEN [@ EXCEPT ![at + 1] = prev_node] ELSE @,
               !.overflow = @ \/ at >= nodes_capacity,
               !.writes = @ + 1,
               !.top = Max(@, at),
               !.visited_length = (@ + 1) % Uint8]

\* lines 45-49: planned[planned_length] = prev_node; both lengths grow
Plan(st, prev_node) ==
    LET at == st.planned_base + st.planned_length IN
    [st EXCEPT !.buf = IF at < nodes_capacity THEN [@ EXCEPT ![at + 1] = prev_node] ELSE @,
               !.overflow = @ \/ at >= nodes_capacity,
               !.writes = @ + 1,
               !.top = Max(@, at),
               !.high = Max(@, Max(st.planned_length + 1, st.visited_length + 1)),
               !.planned_length = (@ + 1) % Uint8,
               !.visited_length = (@ + 1) % Uint8]

\* faulty variant of VisitTransition: the match is kept but the loops go on
\* (no return at line 35), so a later match replaces it
VisitTransition_LastMatch(st, node, t, current) ==
    IF destination_node_index[t] = node /\ IsFollowed(t)
    THEN LET prev_node == source_node_index[t] IN
         IF prev_node = current THEN [st EXCEPT !.found = t]
         ELSE IF IsVisited(st.buf, st.visited_length, prev_node) THEN st
         ELSE Plan(st, prev_node)
    ELSE st

\* lines 28-51: the body of the loop over the registry, for entry t
VisitTransition(st, node, t, current) ==
    IF destination_node_index[t] = node /\ IsFollowed(t)
    THEN LET prev_node == source_node_index[t]
             read == LastVisitedRead(st.buf, st.visited_length, prev_node)
             st1 == [st EXCEPT !.top = Max(@, read)] IN
         IF prev_node = current THEN [st EXCEPT !.found = t, !.done = TRUE]
         ELSE IF IsVisited(st.buf, st.visited_length, prev_node) THEN st1
         ELSE Plan(st1, prev_node)
    ELSE st

\* faulty variant of ScanTransitions: the registry is scanned from its end
RECURSIVE ScanTransitions_Backwards(_, _, _, _, _)
ScanTransitions_Backwards(st, node, reg, current, j) ==
    IF st.done \/ j >= Len(reg) THEN st
    ELSE ScanTransitions_Backwards(VisitTransition(st, node, reg[Len(reg) - j], current),
                                   node, reg, current, j + 1)

\* line 27: for (j = 0; j < transitions_count; j++), left by the return
RECURSIVE ScanTransitions(_, _, _, _, _)
ScanTransitions(st, node, reg, current, j) ==
    IF st.done \/ j >= Len(reg) THEN st
    ELSE ScanTransitions(VisitTransition(st, node, reg[j + 1], current),
                         node, reg, current, j + 1)

\* line 23: for (i = 0; i < working_length; i++) over working[i]
RECURSIVE ScanNodes(_, _, _, _, _, _)
ScanNodes(st, working, working_length, reg, current, i) ==
    IF st.done \/ i >= working_length THEN st
    ELSE ScanNodes(ScanTransitions([st EXCEPT !.top = Max(@, working + i)],
                                   st.buf[working + i + 1], reg, current, 0),
                   working, working_length, reg, current, i + 1)

\* lines 12-54: while (planned_length), one layer per iteration
RECURSIVE Layers(_, _, _, _)
Layers(st, index_planned, reg, current) ==
    IF st.planned_length = 0 THEN st
    ELSE LET working == index_planned
             working_length == st.planned_length
             st1 == [st EXCEPT !.planned_base = index_planned + st.planned_length,
                               !.planned_length = 0,
                               !.high = Max(@, index_planned + working_length),
                               !.layers = @ + 1]
             st2 == ScanNodes(st1, working, working_length, reg, current, 0)
         IN IF st2.done THEN st2
            ELSE Layers(st2, (index_planned + working_length) % Uint8, reg, current)

\* lines 3-56; the record also keeps the scratch buffer and the loop counts:
\* writes, the entries written; top, the highest index of alg_nodes_buffer
\* read or written; high, the highest value an 8-bit cursor is given, before
\* its reduction to 8 bits; overflow, a write at or past nodes_capacity
SearchRun(reg, current, target) ==
    Layers([buf |-> [i \in 1 .. nodes_capacity |-> IF i = 1 THEN target ELSE Unwritten],
            planned_base |-> 1,
            planned_length |-> 1,
            visited_length |-> 1,
            found |-> NULL,
            done |-> FALSE,
            layers |-> 0,
            writes |-> 1,
            top |-> 0,
            high |-> 1,
            overflow |-> FALSE],
           0, reg, current)

GOFSM_SearchNextStep(reg, current, target) == SearchRun(reg, current, target).found

\* ------------------------------------------------------------ the registry
\* faulty variant of IsFull: the registry takes one entry too many
IsFull_OneMore(count, capacity) == count > capacity

\* line 105
IsFull(count, capacity) == count = capacity

\* lines 102-112
GOFSM_AddTransition(transition) ==
    /\ IF IsFull(transitions_count, transitions_capacity)
       THEN /\ UNCHANGED <<engine, pending>>
            /\ last' = [op |-> "add", ref |-> transition,
                        err |-> GOFSM_Error_OwerstackTransitions] @@ Carried
       ELSE /\ transitions' = Append(transitions, transition)
            /\ is_graph_reconfigured' = 1
            /\ UNCHANGED <<transition_current, current_node_index, target_node_index,
                           is_target_change, is_transition_failure>>
            /\ last' = [op |-> "add", ref |-> transition, err |-> GOFSM_Error_No]
                          @@ Carried
            /\ pending' = NULL
    /\ UNCHANGED <<config, objs>>

\* line 116-117: the first i with transitions[i] == transition, 0 when none
FirstIndex(reg, transition) ==
    IF \E i \in 1 .. Len(reg) : reg[i] = transition
    THEN CHOOSE i \in 1 .. Len(reg) :
             reg[i] = transition /\ \A k \in 1 .. (i - 1) : reg[k] # transition
    ELSE 0

\* faulty variant of RemoveAt: the last entry is moved into the hole
RemoveAt_SwapLast(reg, i) ==
    [k \in 1 .. (Len(reg) - 1) |-> IF k = i THEN reg[Len(reg)] ELSE reg[k]]

\* lines 118-120: memmove of the tail over entry i, count decremented
RemoveAt(reg, i) == [k \in 1 .. (Len(reg) - 1) |-> IF k < i THEN reg[k] ELSE reg[k + 1]]

\* lines 113-124
GOFSM_RemoveTransition(transition) ==
    /\ LET i == FirstIndex(transitions, transition) IN
       IF i # 0
       THEN /\ transitions' = RemoveAt(transitions, i)
            /\ last' = [op |-> "remove", ref |-> transition, err |-> GOFSM_Error_No]
                          @@ Carried
            /\ pending' = NULL
       ELSE /\ UNCHANGED <<transitions, pending>>
            /\ last' = [op |-> "remove", ref |-> transition,
                        err |-> GOFSM_Error_NotRegisteredTransition] @@ Carried
    /\ UNCHANGED <<transition_current, current_node_index, target_node_index,
                   is_target_change, is_transition_failure, is_graph_reconfigured>>
    /\ UNCHANGED <<config, objs>>

\* lines 96-100
GOFSM_Transition_SetState(transition, s) ==
    /\ state' = [state EXCEPT ![transition] = s]
    /\ is_graph_reconfigured' = 1
    /\ UNCHANGED <<config, source_node_index, destination_node_index, function>>
    /\ UNCHANGED <<transitions, transition_current, current_node_index, target_node_index,
                   is_target_change, is_transition_failure>>
    /\ last' = [op |-> "setstate", err |-> GOFSM_Error_No]
                  @@ Carried
    /\ pending' = NULL

\* ------------------------------------------------------- goal and position
\* lines 126-130
GOFSM_SetCurrent(node_index) ==
    /\ current_node_index' = node_index
    /\ is_target_change' = 1
    /\ UNCHANGED <<transitions, transition_current, target_node_index,
                   is_transition_failure, is_graph_reconfigured>>
    /\ UNCHANGED <<config, objs>>
    /\ last' = [op |-> "setcurrent", node |-> node_index, err |-> GOFSM_Error_No,
                none |-> last.none, goal |-> TRUE]
    /\ pending' = NULL

\* lines 131-135
GOFSM_SetTarget(node_index) ==
    /\ target_node_index' = node_index
    /\ is_target_change' = 1
    /\ UNCHANGED <<transitions, transition_current, current_node_index,
                   is_transition_failure, is_graph_reconfigured>>
    /\ UNCHANGED <<config, objs>>
    /\ last' = [op |-> "settarget", node |-> node_index, err |-> GOFSM_Error_No,
                none |-> last.none, goal |-> TRUE]
    /\ pending' = NULL

\* ------------------------------------------------------------ GOFSM_OnTick
\* faulty variant of IsIdle: the early return of lines 139-141 left out
IsIdle_Never(current, target) == FALSE

\* line 139
IsIdle(current, target) == current = target

\* faulty variant of MustReplan: a search on every tick
MustReplan_Always(failure, target_change, reconfigured) == TRUE

\* faulty variant of MustReplan: && written for || between the two flags,
\* the failure flag left out
MustReplan_BothFlags(failure, target_change, reconfigured) ==
    target_change = 1 /\ reconfigured = 1

\* faulty variant of MustReplan: is_target_change left out of line 142
MustReplan_IgnoreGoal(failure, target_change, reconfigured) ==
    failure = 0 \/ reconfigured = 1

\* line 142
MustReplan(failure, target_change, reconfigured) ==
    failure = 0 \/ target_change = 1 \/ reconfigured = 1

\* faulty variant of Cached: a NULL search result leaves the old one cached
Cached_KeepOnNone(replan, found, cached) ==
    IF replan /\ found # NULL THEN found ELSE cached

\* line 143: the search result replaces the cached transition, NULL included
Cached(replan, found, cached) == IF replan THEN found ELSE cached

\* lines 149, 155-157: what the attempt can report; no action is a success
Outcomes(transition) ==
    IF function[transition]
    THEN {GOFSM_Transition_Result_Failure, GOFSM_Transition_Result_Success}
    ELSE {GOFSM_Transition_Result_Success}

\* faulty variant of Advance: a success moves current straight to the target
Advance_ToTarget(result, current, transition) ==
    IF result = GOFSM_Transition_Result_Success
    THEN target_node_index
    ELSE current

\* faulty variant of Advance: current moves whatever the action reports
Advance_Always(result, current, transition) == destination_node_index[transition]

\* lines 160-162
Advance(result, current, transition) ==
    IF result = GOFSM_Transition_Result_Success
    THEN destination_node_index[transition]
    ELSE current

\* faulty variant of Cleared: the flag is left as it is
Cleared_Never(replan, flag) == flag

\* lines 145-146: a flag after the if of line 142
Cleared(replan, flag) == IF replan THEN 0 ELSE flag

\* what a tick leaves in last besides its outcome (observation only): whether
\* it was made after a no-path tick, after a goal change, with the failure
\* flag set
Before == [after_none |-> last.none, after_goal |-> last.goal,
           was_failed |-> is_transition_failure = 1]

\* lines 137-163
GOFSM_OnTick ==
    /\ UNCHANGED <<config, objs>>
    /\ IF IsIdle(current_node_index, target_node_index)
       THEN /\ UNCHANGED <<engine, pending>>
            /\ last' = [op |-> "tick", idle |-> TRUE, searched |-> FALSE, found |-> NULL,
                        attempted |-> NULL, invoked |-> FALSE,
                        result |-> GOFSM_Transition_Result_Success]
                          @@ Before @@ Carried
       ELSE LET replan == MustReplan(is_transition_failure, is_target_change,
                                     is_graph_reconfigured)
                found == IF replan
                         THEN GOFSM_SearchNextStep(transitions, current_node_index,
                                                   target_node_index)
                         ELSE NULL
                transition == Cached(replan, found, transition_current)
            IN /\ transition_current' = transition
               /\ is_target_change' = Cleared(replan, is_target_change)
               /\ is_graph_reconfigured' = Cleared(replan, is_graph_reconfigured)
               /\ UNCHANGED <<transitions, target_node_index>>
               /\ IF transition = NULL
                  THEN /\ is_transition_failure' = 0
                       /\ UNCHANGED current_node_index
                       /\ last' = [op |-> "tick", idle |-> FALSE, searched |-> replan,
                                   found |-> found, attempted |-> NULL, invoked |-> FALSE,
                                   result |-> GOFSM_Transition_Result_Success,
                                   none |-> TRUE, goal |-> last.goal /\ ~replan]
                                     @@ Before
                       /\ pending' = NULL
                  ELSE \E result \in Outcomes(transition) :
                       /\ is_transition_failure' = 1 - result
                       /\ current_node_index' = Advance(result, current_node_index, transition)
                       /\ last' = [op |-> "tick", idle |-> FALSE, searched |-> replan,
                                   found |-> found, attempted |-> transition,
                                   invoked |-> function[transition], result |-> result,
                                   none |-> FALSE, goal |-> last.goal /\ ~replan]
                                     @@ Before
                       /\ pending' = IF result = GOFSM_Transition_Result_Failure
                                     THEN transition ELSE NULL

\* ---------------------------------------------------------- specification
\* The owner's transition objects after GOFSM_Transition_Init (lines 89-95):
\* 1: 0 -> 1 with an action, 2: 0 -> 2 without, 3: 2 -> 1 with an action,
\* then the same endpoints again for further references.
OwnerSource == <<0, 0, 2>>
OwnerDestination == <<1, 2, 1>>
OwnerFunction == <<TRUE, FALSE, TRUE>>

\* lines 74-86 (GOFSM_InitStatic); target_node_index is not written by it
InitEngine ==
    /\ transitions = <<>>
    /\ transition_current = NULL
    /\ current_node_index = 0
    /\ target_node_index \in Nodes
    /\ is_target_change = 1
    /\ is_transition_failure = 0
    /\ is_graph_reconfigured = 1

Init ==
    /\ nodes_capacity = NumNodes
    /\ transitions_capacity = MaxTransitions
    /\ source_node_index = OwnerSource
    /\ destination_node_index = OwnerDestination
    /\ function = OwnerFunction
    /\ state = [r \in DOMAIN OwnerSource |-> GOFSM_Transition_State_Available]
    /\ InitEngine
    /\ last = [op |-> "init", ref |-> NULL, err |-> GOFSM_Error_No,
               none |-> FALSE, goal |-> FALSE]
    /\ pending = NULL

Next ==
    \/ \E t \in Refs : GOFSM_AddTransition(t)
    \/ \E t \in Refs : GOFSM_RemoveTransition(t)
    \/ \E t \in Refs, s \in States : GOFSM_Transition_SetState(t, s)
    \/ \E n \in Nodes : GOFSM_SetCurrent(n)
    \/ \E n \in Nodes : GOFSM_SetTarget(n)
    \/ GOFSM_OnTick

Spec == Init /\ [][Next]_vars

\* ------------------------------------------ the search on its own inputs
\* An engine of n nodes holding the registry 1 .. e of transition objects
\* with every choice of endpoints, their states drawn from S, the current
\* node drawn from C and every target node; its other fields are as
\* GOFSM_InitStatic and the mutators leave them.
SearchInput(n, e, S, C) ==
    /\ nodes_capacity = n
    /\ transitions_capacity = e
    /\ transitions \in {[i \in 1 .. k |-> i] : k \in 0 .. e}
    /\ source_node_index \in [1 .. Len(transitions) -> 0 .. (n - 1)]
    /\ destination_node_index \in [1 .. Len(transitions) -> 0 .. (n - 1)]
    /\ state \in [1 .. Len(transitions) -> S]
    /\ function = [r \in 1 .. Len(transitions) |-> FALSE]
    /\ transition_current = NULL
    /\ current_node_index \in C
    /\ target_node_index \in 0 .. (n - 1)
    /\ is_target_change = 1
    /\ is_transition_failure = 0
    /\ is_graph_reconfigured = 1
    /\ last = [op |-> "init", ref |-> NULL, err |-> GOFSM_Error_No,
               none |-> FALSE, goal |-> FALSE]
    /\ pending = NULL

InitSearch ==
    \/ SearchInput(SearchNodes, SearchEdges, States, 0 .. (SearchNodes - 1))
    \/ SearchInput(WideNodes, WideEdges, {GOFSM_Transition_State_Available}, {0})

\* one call of GOFSM_SearchNextStep(gofsm), lines 3-56
SearchCall ==
    /\ last.op = "init"
    /\ LET run == SearchRun(transitions, current_node_index, target_node_index) IN
       last' = [op |-> "search", found |-> run.found, layers |-> run.layers,
                writes |-> run.writes, overflow |-> run.overflow,
                buf |-> run.buf, top |-> run.top, high |-> run.high]
    /\ UNCHANGED <<config, objs, engine, pending>>

NextSearch == SearchCall

SpecSearch == InitSearch /\ [][NextSearch]_vars

\* ------------------------------------------------ hop distance, reachability
\* the registry indices of the Available entries
AvailableAt(reg) == {j \in 1 .. Len(reg) : state[reg[j]] = GOFSM_Transition_State_Available}

\* nodes reached from a over at most k Available registered transitions
RECURSIVE Within(_, _, _)
Within(a, k, reg) ==
    IF k = 0 THEN {a}
    ELSE LET S == Within(a, k - 1, reg) IN
         S \cup {destination_node_index[reg[j]] :
                    j \in {i \in AvailableAt(reg) : source_node_index[reg[i]] \in S}}

Infinity == nodes_capacity + 1

\* the least number of Available registered transitions leading from a to b
HopDist(a, b, reg) ==
    IF b \in Within(a, nodes_capacity, reg)
    THEN CHOOSE k \in 0 .. nodes_capacity :
             b \in Within(a, k, reg) /\ (k = 0 \/ b \notin Within(a, k - 1, reg))
    ELSE Infinity

Reachable(a, b, reg) == HopDist(a, b, reg) # Infinity

Registered(t, reg) == \E j \in 1 .. Len(reg) : reg[j] = t

Searched == last.op = "search" /\ current_node_index # target_node_index

\* ------------------------------------------------------------------ claims
\* C1: when the target is reachable from the current node (different from
\* it) over Available registered transitions, the search returns a
\* registered, Available transition that leaves the current node and whose
\* destination is one hop nearer to the target than the current node is.
C1_FirstEdgeOfShortestPath ==
    (Searched /\ Reachable(current_node_index, target_node_index, transitions))
    => /\ last.found # NULL
       /\ Registered(last.found, transitions)
       /\ state[last.found] = GOFSM_Transition_State_Available
       /\ source_node_index[last.found] = current_node_index
       /\ 1 + HopDist(destination_node_index[last.found], target_node_index, transitions)
            = HopDist(current_node_index, target_node_index, transitions)

\* a search two hops from the target that also had an edge to pass over:
\* an Available registered edge out of the current node that is no nearer
C1_Witness ==
    /\ Searched
    /\ HopDist(current_node_index, target_node_index, transitions) = 2
    /\ last.found # NULL
    /\ \E j \in AvailableAt(transitions) :
          /\ source_node_index[transitions[j]] = current_node_index
          /\ HopDist(destination_node_index[transitions[j]], target_node_index,
                     transitions) # 1

\* C2: the search ends, after at most one layer per node, and it returns
\* NULL exactly when the target is not reachable from the current node (C # T)
\* over Available registered transitions; cycles, self-loops and parallel
\* edges included.
C2_NoneIffUnreachable ==
    Searched
    => /\ (last.found = NULL)
             <=> ~Reachable(current_node_index, target_node_index, transitions)
       /\ last.layers <= nodes_capacity

\* a search that returned NULL on a registry with a cycle of Available
\* transitions through the target and a self-loop
C2_Witness ==
    /\ Searched
    /\ last.found = NULL
    /\ \E j \in AvailableAt(transitions) :
          /\ destination_node_index[transitions[j]] = target_node_index
          /\ source_node_index[transitions[j]] # target_node_index
          /\ Reachable(target_node_index, source_node_index[transitions[j]], transitions)
    /\ \E j \in AvailableAt(transitions) :
          source_node_index[transitions[j]] = destination_node_index[transitions[j]]

\* the registry with the Blocked entries deleted, the others in their order
OnlyAvailable(reg) ==
    SelectSeq(reg, LAMBDA t : state[t] = GOFSM_Transition_State_Available)

\* C3: the search never returns a Blocked transition, and it returns what it
\* returns on the registry with the Blocked entries deleted.
C3_BlockedInvisible ==
    Searched
    => /\ last.found # NULL => state[last.found] = GOFSM_Transition_State_Available
       /\ last.found = GOFSM_SearchNextStep(OnlyAvailable(transitions),
                                            current_node_index, target_node_index)

\* a search past a Blocked transition that leads from the current node
\* straight to the target, with an Available entry registered after it
C3_Witness ==
    /\ Searched
    /\ \E j \in 1 .. Len(transitions) :
          /\ state[transitions[j]] = GOFSM_Transition_State_Blocked
          /\ source_node_index[transitions[j]] = current_node_index
          /\ destination_node_index[transitions[j]] = target_node_index
          /\ \E k \in AvailableAt(transitions) : k > j
    /\ last.found # NULL

\* ---- the order of the scan, by ranking
\* the place of the pair (i-th frontier node, j-th registry entry) in the scan
ScanKey(i, j, reg) == (i - 1) * (Len(reg) + 1) + j

\* the scan places at which node p shows up as a predecessor of the layer
KeysOf(p, layer, reg) ==
    {ScanKey(e[1], e[2], reg) :
        e \in {c \in (1 .. Len(layer)) \X AvailableAt(reg) :
                  /\ source_node_index[reg[c[2]]] = p
                  /\ destination_node_index[reg[c[2]]] = layer[c[1]]}}

Least(S) == CHOOSE x \in S : \A y \in S : x <= y

\* the next layer: the unseen predecessors, by the place they first show up
NextLayer(layer, seen, reg) ==
    LET new == {p \in Nodes \ seen : KeysOf(p, layer, reg) # {}}
        rank(p) == Cardinality({q \in new : Least(KeysOf(q, layer, reg))
                                              < Least(KeysOf(p, layer, reg))})
    IN [r \in 1 .. Cardinality(new) |-> CHOOSE p \in new : rank(p) = r - 1]

Range(f) == {f[x] : x \in DOMAIN f}

\* the transition met first, layer by layer, or NULL when the layers run out
RECURSIVE FirstMet(_, _, _, _)
FirstMet(layer, seen, reg, current) ==
    IF layer = <<>> THEN NULL
    ELSE LET keys == KeysOf(current, layer, reg) IN
         IF keys # {}
         THEN reg[CHOOSE j \in 1 .. Len(reg) :
                     \E i \in 1 .. Len(layer) : ScanKey(i, j, reg) = Least(keys)]
         ELSE LET nxt == NextLayer(layer, seen, reg) IN
              FirstMet(nxt, seen \cup Range(nxt), reg, current)

\* two different Available registry entries with equal endpoints, x before y
Parallel(x, y, reg) ==
    /\ x < y
    /\ reg[x] # reg[y]
    /\ x \in AvailableAt(reg)
    /\ y \in AvailableAt(reg)
    /\ source_node_index[reg[x]] = source_node_index[reg[y]]
    /\ destination_node_index[reg[x]] = destination_node_index[reg[y]]

\* C4: of the Available registered transitions that leave the current node
\* for a node of the layer where the current node is first found, the search
\* returns the first one met when the layer's nodes are taken in the order
\* they entered the frontier and the registry is scanned in its current
\* order for each; a later parallel edge is never preferred to an earlier.
C4_RegistrationOrderTieBreak ==
    Searched
    => /\ last.found = FirstMet(<<target_node_index>>, {target_node_index},
                                transitions, current_node_index)
       /\ \A x, y \in 1 .. Len(transitions) :
             (Parallel(x, y, transitions) /\ ~Registered(transitions[y], SubSeq(transitions, 1, x)))
             => last.found # transitions[y]

\* a search two hops from the target whose layer holds two nodes, each with
\* an Available edge from the current node: the edge into the node that
\* entered the frontier first is returned, though the other edge is
\* registered before it
C4_Witness ==
    /\ Searched
    /\ last.found # NULL
    /\ HopDist(current_node_index, target_node_index, transitions) = 2
    /\ \E z \in AvailableAt(transitions) :
          /\ z < FirstIndex(transitions, last.found)
          /\ source_node_index[transitions[z]] = current_node_index
          /\ destination_node_index[transitions[z]] # destination_node_index[last.found]
          /\ HopDist(destination_node_index[transitions[z]], target_node_index,
                     transitions) = 1

\* ------------------------------------------------------- claims on the tick
\* a step of GOFSM_OnTick (only it leaves "tick" in last)
TickStep == last'.op = "tick"

NonIdleTickStep == TickStep /\ current_node_index # target_node_index

\* C5: after a successful add, a successful remove or a set-state the
\* topology-changed flag is set, and a tick with current # target that comes
\* next runs the search.
C5_MutationForcesSearch ==
    [][(last.op \in {"add", "remove", "setstate"} /\ last.err = GOFSM_Error_No)
       => /\ is_graph_reconfigured = 1
          /\ NonIdleTickStep => last'.searched]_vars

\* C6: while the transition whose action failed is pending (no success, no
\* goal change, no topology change since), a tick attempts that transition
\* again, without a search, keeps it cached, and leaves current where it is
\* unless the action now succeeds.
C6_RetrySameTransition ==
    [][(pending # NULL /\ TickStep)
       => /\ ~last'.idle
          /\ ~last'.searched
          /\ last'.attempted = pending
          /\ transition_current' = pending
          /\ last'.result = GOFSM_Transition_Result_Failure
                => current_node_index' = current_node_index
          /\ UNCHANGED transitions]_vars

\* a retry: a tick that attempted the cached transition without a search,
\* and whose action failed once more
C6_Witness ==
    /\ last.op = "tick"
    /\ ~last.searched
    /\ last.attempted # NULL
    /\ last.result = GOFSM_Transition_Result_Failure
    /\ pending = last.attempted

\* C7: a tick with current = target invokes no action and no search and
\* changes nothing of the engine or of the transition objects, whatever the
\* flags and the cached transition are.
C7_IdleTickNoOp ==
    [][(TickStep /\ current_node_index = target_node_index)
       => /\ UNCHANGED <<config, objs, engine>>
          /\ ~last'.searched
          /\ last'.attempted = NULL
          /\ ~last'.invoked]_vars

\* an idle tick made with all three flags set and a transition cached
C7_Witness ==
    /\ last.op = "tick"
    /\ last.idle
    /\ current_node_index = target_node_index
    /\ is_transition_failure = 1
    /\ is_target_change = 1
    /\ is_graph_reconfigured = 1
    /\ transition_current # NULL

C10_NoPathNoEffect ==
    [][(NonIdleTickStep /\ last'.searched /\ last'.found = NULL)
       => /\ current_node_index' = current_node_index
          /\ target_node_index' = target_node_index
          /\ transitions' = transitions
          /\ UNCHANGED objs
          /\ last'.attempted = NULL
          /\ ~last'.invoked]_vars

\* a no-path tick at node 2 with the edge 2 -> 1 Blocked, target 1
C10_Witness ==
    /\ last.op = "tick"
    /\ ~last.idle
    /\ last.searched
    /\ last.found = NULL
    /\ current_node_index = 2
    /\ target_node_index = 1
    /\ Registered(3, transitions)
    /\ state[3] = GOFSM_Transition_State_Blocked

\* ---------------------------------------------------------------- C11
\* the first edge of a minimum-hop path from the current node
FirstEdge(t, reg) ==
    /\ Registered(t, reg)
    /\ state[t] = GOFSM_Transition_State_Available
    /\ source_node_index[t] = current_node_index
    /\ 1 + HopDist(destination_node_index[t], target_node_index, reg)
         = HopDist(current_node_index, target_node_index, reg)

\* C11: when the latest tick with current # target found no path and the
\* target has since become reachable from current over Available registered
\* transitions, the next tick with current # target runs the search and
\* attempts the first edge of a minimum-hop path.
C11_RecoversAfterNoPath ==
    [][(NonIdleTickStep /\ last.none
          /\ Reachable(current_node_index, target_node_index, transitions))
       => /\ last'.searched
          /\ last'.attempted # NULL
          /\ FirstEdge(last'.attempted, transitions)]_vars

\* a tick made after a no-path tick searched again and attempted a transition
C11_Witness ==
    /\ last.op = "tick"
    /\ last.after_none
    /\ last.searched
    /\ last.attempted # NULL

\* ---------------------------------------------------------------- C12
AddStep == last'.op = "add"

\* C12: the count never exceeds the capacity; an add on a full registry
\* returns the capacity error and leaves registry, count and topology flag
\* unchanged; an add on a non-full registry appends the transition at the
\* end, increments the count and sets the topology flag.
C12_AddBounded ==
    /\ [](transitions_count <= transitions_capacity)
    /\ [][AddStep =>
            IF transitions_count = transitions_capacity
            THEN /\ last'.err = GOFSM_Error_OwerstackTransitions
                 /\ UNCHANGED <<transitions, is_graph_reconfigured>>
            ELSE /\ last'.err = GOFSM_Error_No
                 /\ transitions' = Append(transitions, last'.ref)
                 /\ Len(transitions') = transitions_count + 1
                 /\ is_graph_reconfigured' = 1]_vars

\* an add was refused on a full registry whose topology flag was clear
C12_Witness ==
    /\ last.op = "add"
    /\ last.err = GOFSM_Error_OwerstackTransitions
    /\ transitions_count = transitions_capacity
    /\ is_graph_reconfigured = 0

\* ---------------------------------------------------------------- C13
RemoveStep == last'.op = "remove"

\* reg without its entry i
Without(reg, i) == SubSeq(reg, 1, i - 1) \o SubSeq(reg, i + 1, Len(reg))

\* C13: removing a reference that is not registered returns the not-found
\* error and leaves the engine state unchanged; removing a registered one
\* deletes exactly one entry holding it, decrements the count and keeps the
\* other entries in their order.
C13_RemoveExactlyOne ==
    [][RemoveStep =>
         IF ~Registered(last'.ref, transitions)
         THEN /\ last'.err = GOFSM_Error_NotRegisteredTransition
              /\ UNCHANGED <<config, objs, engine>>
         ELSE /\ last'.err = GOFSM_Error_No
              /\ Len(transitions') = transitions_count - 1
              /\ \E i \in 1 .. transitions_count :
                    /\ transitions[i] = last'.ref
                    /\ transitions' = Without(transitions, i)]_vars

\* the first of three registered entries was removed, the other two kept
\* their order
C13_Witness ==
    /\ last.op = "remove"
    /\ last.err = GOFSM_Error_No
    /\ transitions_count = 2
    /\ transitions[1] # transitions[2]
    /\ last.ref \notin {transitions[1], transitions[2]}

\* ---------------------------------------------------------------- C14
\* C14: a tick that attempts t moves current to dest(t) and clears the
\* failure flag when t has no action or its action succeeds; when the action
\* fails, current is unchanged, the failure flag is set and t stays cached.
\* A tick invokes at most the action of the one transition it attempts, and
\* current changes in a tick in no other way.
C14_OutcomeRule ==
    [][TickStep =>
         IF last'.attempted # NULL
         THEN /\ last'.invoked = function[last'.attempted]
              /\ (~last'.invoked => last'.result = GOFSM_Transition_Result_Success)
              /\ IF last'.result = GOFSM_Transition_Result_Success
                 THEN /\ current_node_index' = destination_node_index[last'.attempted]
                      /\ is_transition_failure' = 0
                 ELSE /\ current_node_index' = current_node_index
                      /\ is_transition_failure' = 1
                      /\ transition_current' = last'.attempted
         ELSE /\ ~last'.invoked
              /\ current_node_index' = current_node_index]_vars

\* a tick invoked an action that failed: the failure flag is set, the
\* transition is cached and current is still its source
C14_Witness ==
    /\ last.op = "tick"
    /\ last.attempted # NULL
    /\ last.invoked
    /\ last.result = GOFSM_Transition_Result_Failure
    /\ is_transition_failure = 1
    /\ transition_current = last.attempted
    /\ current_node_index = source_node_index[last.attempted]

\* ---------------------------------------------------------------- C15
\* C15: after GOFSM_SetCurrent or GOFSM_SetTarget, whatever ticks with
\* current = target come in between, the next tick with current # target
\* runs the search, the failure flag being set or not.
C15_GoalChangeForcesSearch ==
    /\ [](last.goal => is_target_change = 1)
    /\ [][(NonIdleTickStep /\ last.goal) => last'.searched]_vars

\* a tick made after a goal change, with the failure flag set, searched
C15_Witness ==
    /\ last.op = "tick"
    /\ last.after_goal
    /\ last.was_failed
    /\ last.searched

\* ---------------------------------------------------------------- C16
\* C16: is_target_change and is_graph_reconfigured go from set to clear only
\* in a tick that runs the search, and such a tick clears both, a transition
\* found or not.
C16_FlagsClearedBySearchOnly ==
    [][/\ (\/ is_target_change = 1 /\ is_target_change' = 0
           \/ is_graph_reconfigured = 1 /\ is_graph_reconfigured' = 0)
          => (TickStep /\ last'.searched)
       /\ (TickStep /\ last'.searched)
          => (is_target_change' = 0 /\ is_graph_reconfigured' = 0)]_vars

\* a tick searched, found nothing and left both flags clear
C16_Witness ==
    /\ last.op = "tick"
    /\ last.searched
    /\ last.found = NULL
    /\ is_target_change = 0
    /\ is_graph_reconfigured = 0

\* ---------------------------------------------------------------- C17
\* C17: current is 0 after configuration and changes only to the argument of
\* GOFSM_SetCurrent or, in a tick, to the destination of the transition that
\* tick attempted successfully; the cached transition is only ever set by a
\* search, to a transition registered at that moment; the target changes
\* only in GOFSM_SetTarget, to its argument.
C17_NoInventedNode ==
    /\ (last.op = "init" => current_node_index = 0)
    /\ [][/\ current_node_index' # current_node_index
             => \/ last'.op = "setcurrent" /\ current_node_index' = last'.node
                \/ /\ TickStep
                   /\ last'.attempted # NULL
                   /\ last'.result = GOFSM_Transition_Result_Success
                   /\ last'.attempted = transition_current'
                   /\ current_node_index' = destination_node_index[last'.attempted]
          /\ transition_current' # transition_current
             => /\ TickStep
                /\ last'.searched
                /\ transition_current' = last'.found
          /\ (TickStep /\ last'.searched /\ last'.found # NULL)
             => Registered(last'.found, transitions)
          /\ target_node_index' # target_node_index
             => last'.op = "settarget" /\ target_node_index' = last'.node]_vars

\* a tick moved current to the destination of the registered transition it
\* attempted, which is not the target
C17_Witness ==
    /\ last.op = "tick"
    /\ last.attempted # NULL
    /\ last.result = GOFSM_Transition_Result_Success
    /\ current_node_index = destination_node_index[last.attempted]
    /\ current_node_index # target_node_index

\* ---------------------------------------------------------------- C18
\* the node ids in use: current, target and the endpoints of the registered
\* transitions
InUse ==
    {current_node_index, target_node_index}
      \cup {source_node_index[transitions[j]] : j \in 1 .. Len(transitions)}
      \cup {destination_node_index[transitions[j]] : j \in 1 .. Len(transitions)}

\* C18: in a search called with current # target, the entries written to
\* alg_nodes_buffer are pairwise different nodes, their number and every
\* index read or written are below the number of node ids in use and below
\* nodes_capacity, and no 8-bit cursor is given a value above the number of
\* entries written, so none wraps.
C18_ScratchBound ==
    Searched =>
      /\ \A a, b \in 1 .. last.writes :
            a # b => last.buf[a] # last.buf[b]
      /\ \A a \in 1 .. last.writes : last.buf[a] # Unwritten
      /\ last.writes < Cardinality(InUse)
      /\ last.top < Cardinality(InUse)
      /\ last.top < nodes_capacity
      /\ ~last.overflow
      /\ last.high <= last.writes
      /\ last.high < Uint8

\* a search over a cycle through the target wrote every node but current
C18_Witness ==
    /\ Searched
    /\ last.writes = nodes_capacity - 1
    /\ last.layers >= 2
    /\ \E j \in 1 .. Len(transitions) :
          /\ state[transitions[j]] = GOFSM_Transition_State_Available
          /\ source_node_index[transitions[j]] = target_node_index
          /\ destination_node_index[transitions[j]] # target_node_index
          /\ destination_node_index[transitions[j]] # current_node_index
          /\ \E a \in 1 .. last.writes :
                last.buf[a] = destination_node_index[transitions[j]]

\* ---------------------------------------------------------------- C19
\* C19: every transition a tick attempts is at that moment registered,
\* Available and leaves the current node.
C19_NoStaleAttempt ==
    [][(TickStep /\ last'.attempted # NULL)
       => /\ Registered(last'.attempted, transitions)
          /\ state[last'.attempted] = GOFSM_Transition_State_Available
          /\ source_node_index[last'.attempted] = current_node_index]_vars

\* ---------------------------------------------------------------- C20
\* C20: once GOFSM_RemoveTransition(t) has succeeded, t is not registered:
\* removing t again at once returns the not-found error, and a search made
\* before any other registry call does not return t.
C20_RemovedIsGone ==
    /\ []((last.op = "remove" /\ last.err = GOFSM_Error_No)
          => ~Registered(last.ref, transitions))
    /\ [][(last.op = "remove" /\ last.err = GOFSM_Error_No)
          => /\ (RemoveStep /\ last'.ref = last.ref)
                => last'.err = GOFSM_Error_NotRegisteredTransition
             /\ (TickStep /\ last'.searched) => last'.found # last.ref]_vars

====
